---- MODULE Spec2Model ----
(***************************************************************************)
(* Model of PracticeCpp222.cpp: the Serializer contract, XmlSerializer,    *)
(* JsonSerializer, the Vehicle kinds that drive a Serializer, and          *)
(* createSerializer.                                                       *)
(*                                                                         *)
(* A std::string is a sequence of one-character strings, so that the       *)
(* rendered text can be inspected character by character.                  *)
(***************************************************************************)
EXTENDS Integers, Sequences, FiniteSets, TLC

VARIABLES serializer, instances, result, iterations, error, calls, steps,
          twin, cin, selectedFormat, pc, vehicleIndex, exitCode

driverVars == <<cin, selectedFormat, pc, vehicleIndex, exitCode>>

vars == <<serializer, instances, result, iterations, error, calls, steps,
          twin, driverVars>>

(***************************************************************************)
(* Bounds of the exploration.                                              *)
(***************************************************************************)
MaxSteps == 5
MaxFactoryCalls == 2

(***************************************************************************)
(* Characters and string literals of the source.                           *)
(***************************************************************************)
NL == "\n"
QUOTE == "\""
SP == " "

S_xml == <<"x", "m", "l">>
S_json == <<"j", "s", "o", "n">>
S_XML == <<"X", "M", "L">>
S_yaml == <<"y", "a", "m", "l">>
S_empty == <<>>
S_Unsupported == <<"U", "n", "s", "u", "p", "p", "o", "r", "t", "e", "d", " ",
                   "f", "o", "r", "m", "a", "t", ":", " ">>

S_a == <<"a">>
S_b == <<"b">>
S_x == <<"x">>
S_y == <<"y">>

(***************************************************************************)
(* std::to_string.  An int is printed in decimal; a double is printed as   *)
(* by "%f", with six fractional digits.  A double is held as its whole     *)
(* part and its millionths (only non-negative doubles occur).              *)
(***************************************************************************)
Digit(d) ==
    CASE d = 0 -> "0" [] d = 1 -> "1" [] d = 2 -> "2" [] d = 3 -> "3"
      [] d = 4 -> "4" [] d = 5 -> "5" [] d = 6 -> "6" [] d = 7 -> "7"
      [] d = 8 -> "8" [] d = 9 -> "9"

RECURSIVE NatToString(_)
NatToString(n) ==
    IF n < 10 THEN <<Digit(n)>>
    ELSE NatToString(n \div 10) \o <<Digit(n % 10)>>

IntToString(n) ==
    IF n < 0 THEN <<"-">> \o NatToString(0 - n) ELSE NatToString(n)

DoubleToString(whole, micro) ==
    NatToString(whole) \o <<".">> \o
    <<Digit((micro \div 100000) % 10), Digit((micro \div 10000) % 10),
      Digit((micro \div 1000) % 10), Digit((micro \div 100) % 10),
      Digit((micro \div 10) % 10), Digit(micro % 10)>>

(***************************************************************************)
(* The three overloads of addField take a string, an int or a double.      *)
(***************************************************************************)
StringValue(s) == [t |-> "string", s |-> s, n |-> 0, micro |-> 0]
IntValue(n) == [t |-> "int", s |-> <<>>, n |-> n, micro |-> 0]
DoubleValue(whole, micro) == [t |-> "double", s |-> <<>>, n |-> whole, micro |-> micro]
NoValue == [t |-> "none", s |-> <<>>, n |-> 0, micro |-> 0]

(***************************************************************************)
(* XmlSerializer                                                           *)
(***************************************************************************)
NewXmlSerializer(id) ==
    [class |-> "XmlSerializer", id |-> id, blockStack |-> <<>>,
     outputContent |-> <<>>, currentIndentLevel |-> 0]

XmlGetCurrentIndent(s) == [i \in 1..(s.currentIndentLevel * 2) |-> SP]

XmlField(s, fieldName, text) ==
    [s EXCEPT !.outputContent =
        @ \o XmlGetCurrentIndent(s) \o <<"<">> \o fieldName \o <<">">> \o text
          \o <<"<", "/">> \o fieldName \o <<">", NL>>]

XmlAddFieldString(s, fieldName, fieldValue) == XmlField(s, fieldName, fieldValue)

XmlAddFieldInt(s, fieldName, fieldValue) ==
    XmlField(s, fieldName, IntToString(fieldValue))

XmlAddFieldDouble(s, fieldName, whole, micro) ==
    XmlField(s, fieldName, DoubleToString(whole, micro))

\* Mutant: the indent level is raised before the opening tag is written.
XmlAddBlock_IndentFirst(s, blockName) ==
    LET raised == [s EXCEPT !.currentIndentLevel = @ + 1]
    IN [raised EXCEPT
           !.outputContent = @ \o XmlGetCurrentIndent(raised) \o <<"<">> \o blockName \o <<">", NL>>,
           !.blockStack = Append(@, blockName)]

XmlAddBlock(s, blockName) ==
    [s EXCEPT !.outputContent = @ \o XmlGetCurrentIndent(s) \o <<"<">> \o blockName \o <<">", NL>>,
              !.blockStack = Append(@, blockName),
              !.currentIndentLevel = @ + 1]

\* Mutant: the indent level is lowered before the emptiness test.
XmlEndBlock_IndentOutsideGuard(s) ==
    LET lowered == [s EXCEPT !.currentIndentLevel = @ - 1]
    IN IF s.blockStack # <<>>
       THEN [lowered EXCEPT
                !.blockStack = SubSeq(@, 1, Len(@) - 1),
                !.outputContent = @ \o XmlGetCurrentIndent(lowered) \o <<"<", "/">>
                                    \o s.blockStack[Len(s.blockStack)] \o <<">", NL>>]
       ELSE lowered

\* Mutant: the oldest block is closed instead of the newest.
XmlEndBlock_Front(s) ==
    IF s.blockStack # <<>>
    THEN LET lowered == [s EXCEPT !.currentIndentLevel = @ - 1]
         IN [lowered EXCEPT
                !.blockStack = Tail(@),
                !.outputContent = @ \o XmlGetCurrentIndent(lowered) \o <<"<", "/">>
                                    \o Head(s.blockStack) \o <<">", NL>>]
    ELSE s

\* Mutant: the closing tag is written before the indent level is lowered.
XmlEndBlock_IndentBeforeLower(s) ==
    IF s.blockStack # <<>>
    THEN [s EXCEPT
            !.currentIndentLevel = @ - 1,
            !.blockStack = SubSeq(@, 1, Len(@) - 1),
            !.outputContent = @ \o XmlGetCurrentIndent(s) \o <<"<", "/">>
                                \o s.blockStack[Len(s.blockStack)] \o <<">", NL>>]
    ELSE s

XmlEndBlock(s) ==
    IF s.blockStack # <<>>
    THEN LET lowered == [s EXCEPT !.currentIndentLevel = @ - 1]
             lastBlockName == s.blockStack[Len(s.blockStack)]
         IN [lowered EXCEPT
                !.blockStack = SubSeq(@, 1, Len(@) - 1),
                !.outputContent = @ \o XmlGetCurrentIndent(lowered) \o <<"<", "/">>
                                    \o lastBlockName \o <<">", NL>>]
    ELSE s

\* Mutant: the loop stops while one block is still open.
RECURSIVE XmlBuildLoop_StopsAtOne(_, _)
XmlBuildLoop_StopsAtOne(s, n) ==
    IF Len(s.blockStack) > 1 THEN XmlBuildLoop_StopsAtOne(XmlEndBlock(s), n + 1)
    ELSE [ser |-> s, iterations |-> n]

RECURSIVE XmlBuildLoop(_, _)
XmlBuildLoop(s, n) ==
    IF s.blockStack # <<>> THEN XmlBuildLoop(XmlEndBlock(s), n + 1)
    ELSE [ser |-> s, iterations |-> n]

XmlBuild(s) ==
    LET r == XmlBuildLoop(s, 0)
    IN [ser |-> r.ser, iterations |-> r.iterations, ret |-> r.ser.outputContent]

(***************************************************************************)
(* JsonSerializer                                                          *)
(***************************************************************************)
NewJsonSerializer(id) ==
    [class |-> "JsonSerializer", id |-> id, blockStack |-> <<>>,
     outputContent |-> <<>>, isCommaNeeded |-> FALSE, currentIndentLevel |-> 0]

JsonGetCurrentIndent(s) == [i \in 1..(s.currentIndentLevel * 2) |-> SP]

\* Mutant: the newline is written only behind a comma.
handleCommaIfNeeded_NewlineWithComma(s) ==
    [s EXCEPT !.outputContent = @ \o (IF s.isCommaNeeded THEN <<",", NL>> ELSE <<>>),
              !.isCommaNeeded = TRUE]

handleCommaIfNeeded(s) ==
    [s EXCEPT !.outputContent = @ \o (IF s.isCommaNeeded THEN <<",">> ELSE <<>>) \o <<NL>>,
              !.isCommaNeeded = TRUE]

JsonAddFieldString(s, fieldName, fieldValue) ==
    LET h == handleCommaIfNeeded(s)
    IN [h EXCEPT !.outputContent =
           @ \o JsonGetCurrentIndent(h) \o <<QUOTE>> \o fieldName \o <<QUOTE, ":", SP, QUOTE>>
             \o fieldValue \o <<QUOTE>>]

JsonNumberField(s, fieldName, text) ==
    LET h == handleCommaIfNeeded(s)
    IN [h EXCEPT !.outputContent =
           @ \o JsonGetCurrentIndent(h) \o <<QUOTE>> \o fieldName \o <<QUOTE, ":", SP>> \o text]

JsonAddFieldInt(s, fieldName, fieldValue) ==
    JsonNumberField(s, fieldName, IntToString(fieldValue))

JsonAddFieldDouble(s, fieldName, whole, micro) ==
    JsonNumberField(s, fieldName, DoubleToString(whole, micro))

\* Mutant: the comma flag is not reset when a block is opened.
JsonAddBlock_NoReset(s, blockName) ==
    LET h == handleCommaIfNeeded(s)
    IN [h EXCEPT !.outputContent =
                    @ \o JsonGetCurrentIndent(h) \o <<QUOTE>> \o blockName \o <<QUOTE, ":", SP, "{">>,
                 !.blockStack = Append(@, blockName),
                 !.currentIndentLevel = @ + 1]

\* Mutant: the name of the block is not pushed.
JsonAddBlock_NoPush(s, blockName) ==
    LET h == handleCommaIfNeeded(s)
    IN [h EXCEPT !.outputContent =
                    @ \o JsonGetCurrentIndent(h) \o <<QUOTE>> \o blockName \o <<QUOTE, ":", SP, "{">>,
                 !.currentIndentLevel = @ + 1,
                 !.isCommaNeeded = FALSE]

JsonAddBlock(s, blockName) ==
    LET h == handleCommaIfNeeded(s)
    IN [h EXCEPT !.outputContent =
                    @ \o JsonGetCurrentIndent(h) \o <<QUOTE>> \o blockName \o <<QUOTE, ":", SP, "{">>,
                 !.blockStack = Append(@, blockName),
                 !.currentIndentLevel = @ + 1,
                 !.isCommaNeeded = FALSE]

\* Mutant: the comma flag is set outside the emptiness test.
JsonEndBlock_FlagOutsideGuard(s) ==
    IF s.blockStack # <<>>
    THEN LET lowered == [s EXCEPT !.currentIndentLevel = @ - 1]
         IN [lowered EXCEPT
                !.outputContent = @ \o <<NL>> \o JsonGetCurrentIndent(lowered) \o <<"}">>,
                !.blockStack = SubSeq(@, 1, Len(@) - 1),
                !.isCommaNeeded = TRUE]
    ELSE [s EXCEPT !.isCommaNeeded = TRUE]

\* Mutant: the emptiness test is missing.
JsonEndBlock_NoGuard(s) ==
    LET lowered == [s EXCEPT !.currentIndentLevel = @ - 1]
    IN [lowered EXCEPT
           !.outputContent = @ \o <<NL>> \o JsonGetCurrentIndent(lowered) \o <<"}">>,
           !.blockStack = SubSeq(@, 1, Len(@) - 1),
           !.isCommaNeeded = TRUE]

\* Mutant: closing a block leaves the comma flag as it is.
JsonEndBlock_KeepsFlag(s) ==
    IF s.blockStack # <<>>
    THEN LET lowered == [s EXCEPT !.currentIndentLevel = @ - 1]
         IN [lowered EXCEPT
                !.outputContent = @ \o <<NL>> \o JsonGetCurrentIndent(lowered) \o <<"}">>,
                !.blockStack = SubSeq(@, 1, Len(@) - 1)]
    ELSE s

JsonEndBlock(s) ==
    IF s.blockStack # <<>>
    THEN LET lowered == [s EXCEPT !.currentIndentLevel = @ - 1]
         IN [lowered EXCEPT
                !.outputContent = @ \o <<NL>> \o JsonGetCurrentIndent(lowered) \o <<"}">>,
                !.blockStack = SubSeq(@, 1, Len(@) - 1),
                !.isCommaNeeded = TRUE]
    ELSE s

RECURSIVE JsonBuildLoop(_, _)
JsonBuildLoop(s, n) ==
    IF s.blockStack # <<>> THEN JsonBuildLoop(JsonEndBlock(s), n + 1)
    ELSE [ser |-> s, iterations |-> n]

\* Mutant: the wrapper is stored into the buffer.
JsonBuild_WrapsBuffer(s) ==
    LET r == JsonBuildLoop(s, 0)
        wrapped == <<"{", NL>> \o r.ser.outputContent \o <<NL, "}">>
    IN [ser |-> [r.ser EXCEPT !.outputContent = wrapped], iterations |-> r.iterations,
        ret |-> wrapped]

JsonBuild(s) ==
    LET r == JsonBuildLoop(s, 0)
    IN [ser |-> r.ser, iterations |-> r.iterations,
        ret |-> <<"{", NL>> \o r.ser.outputContent \o <<NL, "}">>]

(***************************************************************************)
(* String literals of the Vehicle classes and of main.                     *)
(***************************************************************************)
S_vehicle == <<"v", "e", "h", "i", "c", "l", "e">>
S_type == <<"t", "y", "p", "e">>
S_name == <<"n", "a", "m", "e">>
S_manufacturer ==
    <<"m", "a", "n", "u", "f", "a",
      "c", "t", "u", "r", "e", "r">>
S_weight == <<"w", "e", "i", "g", "h", "t">>
S_power == <<"p", "o", "w", "e", "r">>
S_year == <<"y", "e", "a", "r">>
S_Car == <<"C", "a", "r">>
S_Airplane == <<"A", "i", "r", "p", "l", "a", "n", "e">>
S_Ship == <<"S", "h", "i", "p">>
S_carSpecific == <<"c", "a", "r", "S", "p", "e", "c", "i", "f", "i", "c">>
S_doors == <<"d", "o", "o", "r", "s">>
S_passengerSeats ==
    <<"p", "a", "s", "s", "e", "n", "g",
      "e", "r", "S", "e", "a", "t", "s">>
S_fuelType == <<"f", "u", "e", "l", "T", "y", "p", "e">>
S_engineVolume ==
    <<"e", "n", "g", "i", "n", "e",
      "V", "o", "l", "u", "m", "e">>
S_airplaneSpecific ==
    <<"a", "i", "r", "p", "l", "a", "n", "e",
      "S", "p", "e", "c", "i", "f", "i", "c">>
S_wingspan == <<"w", "i", "n", "g", "s", "p", "a", "n">>
S_maxAltitude == <<"m", "a", "x", "A", "l", "t", "i", "t", "u", "d", "e">>
S_passengerCapacity ==
    <<"p", "a", "s", "s", "e", "n", "g", "e",
      "r", "C", "a", "p", "a", "c", "i", "t", "y">>
S_maxSpeed == <<"m", "a", "x", "S", "p", "e", "e", "d">>
S_shipSpecific ==
    <<"s", "h", "i", "p", "S", "p",
      "e", "c", "i", "f", "i", "c">>
S_length == <<"l", "e", "n", "g", "t", "h">>
S_displacement ==
    <<"d", "i", "s", "p", "l", "a",
      "c", "e", "m", "e", "n", "t">>
S_crewCapacity ==
    <<"c", "r", "e", "w", "C", "a",
      "p", "a", "c", "i", "t", "y">>
S_propulsionType ==
    <<"p", "r", "o", "p", "u", "l", "s",
      "i", "o", "n", "T", "y", "p", "e">>
S_BMW_G30 == <<"B", "M", "W", " ", "G", "3", "0">>
S_BMW == <<"B", "M", "W">>
S_petrol == <<"p", "e", "t", "r", "o", "l">>
S_Boeing_747_400 ==
    <<"B", "o", "e", "i", "n", "g", " ",
      "7", "4", "7", "-", "4", "0", "0">>
S_Boeing == <<"B", "o", "e", "i", "n", "g">>
S_MS_Queen_Victoria ==
    <<"M", "S", " ", "Q", "u", "e", "e", "n",
      " ", "V", "i", "c", "t", "o", "r", "i", "a">>
S_Fincantieri == <<"F", "i", "n", "c", "a", "n", "t", "i", "e", "r", "i">>
S_diesel_electric ==
    <<"d", "i", "e", "s", "e", "l", "-",
      "e", "l", "e", "c", "t", "r", "i", "c">>

(***************************************************************************)
(* Virtual dispatch on the Serializer interface.  A call is one of          *)
(* addField (three overloads), addBlock, endBlock.                         *)
(***************************************************************************)
NoSerializer == [class |-> "null", id |-> 0]

AddFieldCall(fieldName, fieldValue) == [op |-> "addField", name |-> fieldName, val |-> fieldValue]
AddBlockCall(blockName) == [op |-> "addBlock", name |-> blockName, val |-> NoValue]
EndBlockCall == [op |-> "endBlock", name |-> <<>>, val |-> NoValue]

addField(s, fieldName, v) ==
    IF s.class = "XmlSerializer"
    THEN CASE v.t = "string" -> XmlAddFieldString(s, fieldName, v.s)
           [] v.t = "int" -> XmlAddFieldInt(s, fieldName, v.n)
           [] v.t = "double" -> XmlAddFieldDouble(s, fieldName, v.n, v.micro)
    ELSE CASE v.t = "string" -> JsonAddFieldString(s, fieldName, v.s)
           [] v.t = "int" -> JsonAddFieldInt(s, fieldName, v.n)
           [] v.t = "double" -> JsonAddFieldDouble(s, fieldName, v.n, v.micro)

addBlock(s, blockName) ==
    IF s.class = "XmlSerializer" THEN XmlAddBlock(s, blockName) ELSE JsonAddBlock(s, blockName)

endBlock(s) ==
    IF s.class = "XmlSerializer" THEN XmlEndBlock(s) ELSE JsonEndBlock(s)

build(s) ==
    IF s.class = "XmlSerializer" THEN XmlBuild(s) ELSE JsonBuild(s)

Call(s, c) ==
    CASE c.op = "addField" -> addField(s, c.name, c.val)
      [] c.op = "addBlock" -> addBlock(s, c.name)
      [] c.op = "endBlock" -> endBlock(s)

RECURSIVE ApplyCalls(_, _)
ApplyCalls(s, cs) ==
    IF cs = <<>> THEN s ELSE ApplyCalls(Call(s, Head(cs)), Tail(cs))

(***************************************************************************)
(* Vehicles: the three objects main builds, and the serialize methods.     *)
(***************************************************************************)
bmwCar ==
    [kind |-> "Car", modelName |-> S_BMW_G30, manufacturerName |-> S_BMW,
     vehicleWeight |-> DoubleValue(1600, 0), enginePower |-> DoubleValue(252, 0),
     productionYear |-> 2020, doorCount |-> 4, passengerSeatCount |-> 5,
     fuelType |-> S_petrol, engineVolume |-> DoubleValue(2, 0)]

boeingPlane ==
    [kind |-> "Airplane", modelName |-> S_Boeing_747_400, manufacturerName |-> S_Boeing,
     vehicleWeight |-> DoubleValue(180000, 0), enginePower |-> DoubleValue(240000, 0),
     productionYear |-> 1988, wingSpan |-> 64, maxAltitude |-> 13700,
     maxPassengerCapacity |-> 416, maxSpeed |-> DoubleValue(988, 0)]

victoriaShip ==
    [kind |-> "Ship", modelName |-> S_MS_Queen_Victoria, manufacturerName |-> S_Fincantieri,
     vehicleWeight |-> DoubleValue(90000000, 0), enginePower |-> DoubleValue(120000, 0),
     productionYear |-> 2007, shipLength |-> DoubleValue(294, 0),
     shipDisplacement |-> DoubleValue(90000, 0), crewCapacity |-> 1000,
     propulsionType |-> S_diesel_electric]

vehicleList == <<bmwCar, boeingPlane, victoriaShip>>

\* Mutant: fuelType is written before passengerSeats.
CarSerialize_FieldsSwapped(v) ==
    <<AddBlockCall(S_vehicle),
      AddFieldCall(S_type, StringValue(S_Car)),
      AddFieldCall(S_name, StringValue(v.modelName)),
      AddFieldCall(S_manufacturer, StringValue(v.manufacturerName)),
      AddFieldCall(S_weight, v.vehicleWeight),
      AddFieldCall(S_power, v.enginePower),
      AddFieldCall(S_year, IntValue(v.productionYear)),
      AddBlockCall(S_carSpecific),
      AddFieldCall(S_doors, IntValue(v.doorCount)),
      AddFieldCall(S_fuelType, StringValue(v.fuelType)),
      AddFieldCall(S_passengerSeats, IntValue(v.passengerSeatCount)),
      AddFieldCall(S_engineVolume, v.engineVolume),
      EndBlockCall,
      EndBlockCall>>

\* Mutant: the "vehicle" block is not closed.
CarSerialize_MissingEndBlock(v) ==
    <<AddBlockCall(S_vehicle),
      AddFieldCall(S_type, StringValue(S_Car)),
      AddFieldCall(S_name, StringValue(v.modelName)),
      AddFieldCall(S_manufacturer, StringValue(v.manufacturerName)),
      AddFieldCall(S_weight, v.vehicleWeight),
      AddFieldCall(S_power, v.enginePower),
      AddFieldCall(S_year, IntValue(v.productionYear)),
      AddBlockCall(S_carSpecific),
      AddFieldCall(S_doors, IntValue(v.doorCount)),
      AddFieldCall(S_passengerSeats, IntValue(v.passengerSeatCount)),
      AddFieldCall(S_fuelType, StringValue(v.fuelType)),
      AddFieldCall(S_engineVolume, v.engineVolume),
      EndBlockCall>>

CarSerialize(v) ==
    <<AddBlockCall(S_vehicle),
      AddFieldCall(S_type, StringValue(S_Car)),
      AddFieldCall(S_name, StringValue(v.modelName)),
      AddFieldCall(S_manufacturer, StringValue(v.manufacturerName)),
      AddFieldCall(S_weight, v.vehicleWeight),
      AddFieldCall(S_power, v.enginePower),
      AddFieldCall(S_year, IntValue(v.productionYear)),
      AddBlockCall(S_carSpecific),
      AddFieldCall(S_doors, IntValue(v.doorCount)),
      AddFieldCall(S_passengerSeats, IntValue(v.passengerSeatCount)),
      AddFieldCall(S_fuelType, StringValue(v.fuelType)),
      AddFieldCall(S_engineVolume, v.engineVolume),
      EndBlockCall,
      EndBlockCall>>

AirplaneSerialize(v) ==
    <<AddBlockCall(S_vehicle),
      AddFieldCall(S_type, StringValue(S_Airplane)),
      AddFieldCall(S_name, StringValue(v.modelName)),
      AddFieldCall(S_manufacturer, StringValue(v.manufacturerName)),
      AddFieldCall(S_weight, v.vehicleWeight),
      AddFieldCall(S_power, v.enginePower),
      AddFieldCall(S_year, IntValue(v.productionYear)),
      AddBlockCall(S_airplaneSpecific),
      AddFieldCall(S_wingspan, IntValue(v.wingSpan)),
      AddFieldCall(S_maxAltitude, IntValue(v.maxAltitude)),
      AddFieldCall(S_passengerCapacity, IntValue(v.maxPassengerCapacity)),
      AddFieldCall(S_maxSpeed, v.maxSpeed),
      EndBlockCall,
      EndBlockCall>>

\* Mutant: the sub-block is closed before its last field is written.
ShipSerialize_ClosesEarly(v) ==
    <<AddBlockCall(S_vehicle),
      AddFieldCall(S_type, StringValue(S_Ship)),
      AddFieldCall(S_name, StringValue(v.modelName)),
      AddFieldCall(S_manufacturer, StringValue(v.manufacturerName)),
      AddFieldCall(S_weight, v.vehicleWeight),
      AddFieldCall(S_power, v.enginePower),
      AddFieldCall(S_year, IntValue(v.productionYear)),
      AddBlockCall(S_shipSpecific),
      AddFieldCall(S_length, v.shipLength),
      AddFieldCall(S_displacement, v.shipDisplacement),
      AddFieldCall(S_crewCapacity, IntValue(v.crewCapacity)),
      EndBlockCall,
      AddFieldCall(S_propulsionType, StringValue(v.propulsionType)),
      EndBlockCall>>

ShipSerialize(v) ==
    <<AddBlockCall(S_vehicle),
      AddFieldCall(S_type, StringValue(S_Ship)),
      AddFieldCall(S_name, StringValue(v.modelName)),
      AddFieldCall(S_manufacturer, StringValue(v.manufacturerName)),
      AddFieldCall(S_weight, v.vehicleWeight),
      AddFieldCall(S_power, v.enginePower),
      AddFieldCall(S_year, IntValue(v.productionYear)),
      AddBlockCall(S_shipSpecific),
      AddFieldCall(S_length, v.shipLength),
      AddFieldCall(S_displacement, v.shipDisplacement),
      AddFieldCall(S_crewCapacity, IntValue(v.crewCapacity)),
      AddFieldCall(S_propulsionType, StringValue(v.propulsionType)),
      EndBlockCall,
      EndBlockCall>>

serialize(v) ==
    CASE v.kind = "Car" -> CarSerialize(v)
      [] v.kind = "Airplane" -> AirplaneSerialize(v)
      [] v.kind = "Ship" -> ShipSerialize(v)

serializeVehicle(v, s) == ApplyCalls(s, serialize(v))

(***************************************************************************)
(* createSerializer: id is the identity the new object gets.               *)
(***************************************************************************)
\* Mutant: an unknown format silently yields a JsonSerializer.
createSerializer_DefaultsToJson(outputFormat, id) ==
    IF outputFormat = S_xml
    THEN [thrown |-> FALSE, ser |-> NewXmlSerializer(id), what |-> <<>>]
    ELSE [thrown |-> FALSE, ser |-> NewJsonSerializer(id), what |-> <<>>]

createSerializer(outputFormat, id) ==
    IF outputFormat = S_xml
    THEN [thrown |-> FALSE, ser |-> NewXmlSerializer(id), what |-> <<>>]
    ELSE IF outputFormat = S_json
    THEN [thrown |-> FALSE, ser |-> NewJsonSerializer(id), what |-> <<>>]
    ELSE [thrown |-> TRUE, ser |-> NoSerializer, what |-> S_Unsupported \o outputFormat]

(***************************************************************************)
(* The program under a caller that holds one Serializer at a time (as      *)
(* main's formatSerializer does) and may make any call on it.              *)
(*   serializer  the object the caller holds (NoSerializer before the      *)
(*               first successful createSerializer)                        *)
(*   instances   number of serializers constructed so far                  *)
(*   result      the string the last build() returned                      *)
(*   iterations  how often the loop of the last build() ran                *)
(*   error       what() of the last exception caught, <<>> if none         *)
(*   calls       the log of every call made, with the object it was made on *)
(*   steps       number of caller steps taken                              *)
(* The variables of main (cin, selectedFormat, pc, vehicleIndex, exitCode) *)
(* and the second serializer (twin) are not used by this caller.           *)
(***************************************************************************)
FormatIds == {S_xml, S_json, S_XML, S_empty, S_yaml}
BlockNames == {S_a, S_b}
FieldNames == {S_x}
FieldValues == {StringValue(S_y), IntValue(1)}
Vehicles == {vehicleList[i] : i \in DOMAIN vehicleList}

Logged(id, c) == [inst |-> id, op |-> c.op, name |-> c.name, val |-> c.val]

LogAll(id, cs) == [i \in DOMAIN cs |-> Logged(id, cs[i])]

FactoryCalls == Cardinality({i \in DOMAIN calls : calls[i].op = "createSerializer"})

Fresh == /\ serializer.class # "null"
         /\ \A i \in DOMAIN calls :
               calls[i].inst = serializer.id => calls[i].op = "createSerializer"

Init ==
    /\ serializer = NoSerializer
    /\ instances = 0
    /\ result = <<>>
    /\ iterations = 0
    /\ error = <<>>
    /\ calls = <<>>
    /\ steps = 0
    /\ twin = NoSerializer
    /\ cin = <<>>
    /\ selectedFormat = <<>>
    /\ pc = "caller"
    /\ vehicleIndex = 0
    /\ exitCode = -1

Create(outputFormat) ==
    /\ pc = "caller"
    /\ steps < MaxSteps
    /\ FactoryCalls < MaxFactoryCalls
    /\ LET r == createSerializer(outputFormat, instances + 1)
       IN IF r.thrown
          THEN /\ error' = r.what
               /\ calls' = Append(calls, [inst |-> 0, op |-> "createSerializer",
                                          name |-> outputFormat, val |-> NoValue])
               /\ UNCHANGED <<serializer, instances>>
          ELSE /\ serializer' = r.ser
               /\ instances' = instances + 1
               /\ calls' = Append(calls, [inst |-> r.ser.id, op |-> "createSerializer",
                                          name |-> outputFormat, val |-> NoValue])
               /\ UNCHANGED error
    /\ steps' = steps + 1
    /\ UNCHANGED <<result, iterations, twin, driverVars>>

CallStep(c) ==
    /\ pc = "caller"
    /\ steps < MaxSteps
    /\ serializer.class # "null"
    /\ serializer' = Call(serializer, c)
    /\ calls' = Append(calls, Logged(serializer.id, c))
    /\ steps' = steps + 1
    /\ UNCHANGED <<instances, result, iterations, error, twin, driverVars>>

AddField(fieldName, fieldValue) == CallStep(AddFieldCall(fieldName, fieldValue))

AddBlock(blockName) == CallStep(AddBlockCall(blockName))

EndBlock == CallStep(EndBlockCall)

Build ==
    /\ pc = "caller"
    /\ steps < MaxSteps
    /\ serializer.class # "null"
    /\ LET r == build(serializer)
       IN /\ serializer' = r.ser
          /\ result' = r.ret
          /\ iterations' = r.iterations
    /\ calls' = Append(calls, [inst |-> serializer.id, op |-> "build",
                               name |-> <<>>, val |-> NoValue])
    /\ steps' = steps + 1
    /\ UNCHANGED <<instances, error, twin, driverVars>>

Serialize(v) ==
    /\ pc = "caller"
    /\ steps < MaxSteps
    /\ Fresh
    /\ serializer' = serializeVehicle(v, serializer)
    /\ calls' = Append(calls, [inst |-> serializer.id, op |-> "serialize",
                               name |-> <<v.kind>>, val |-> NoValue])
                  \o LogAll(serializer.id, serialize(v))
    /\ steps' = steps + 1
    /\ UNCHANGED <<instances, result, iterations, error, twin, driverVars>>

Next ==
    \/ \E f \in FormatIds : Create(f)
    \/ \E n \in FieldNames, v \in FieldValues : AddField(n, v)
    \/ \E n \in BlockNames : AddBlock(n)
    \/ EndBlock
    \/ Build
    \/ \E v \in Vehicles : Serialize(v)

Spec == Init /\ [][Next]_vars

TypeOK ==
    /\ serializer.class \in {"null", "XmlSerializer", "JsonSerializer"}
    /\ instances \in 0..MaxFactoryCalls
    /\ steps \in 0..MaxSteps

(***************************************************************************)
(* main.  One step per statement group:                                    *)
(*   read      lines 246-256  read the format, lower-case it, default it   *)
(*   create    lines 258-296  first createSerializer, the vehicles         *)
(*   serialize line 299       serializeVehicle of the current vehicle      *)
(*   build     line 300       build() and print                            *)
(*   recreate  line 301       createSerializer for the next round          *)
(*   return    line 310       return 0                                     *)
(* An exception of createSerializer is caught in the same step (lines      *)
(* 305-308): what() is kept in error and main returns 1.                   *)
(*   cin            the token on standard input (<<>> at end of input)     *)
(*   selectedFormat main's variable of that name                           *)
(*   vehicleIndex   position of currentVehicle in vehicleList              *)
(*   exitCode       value main returned, -1 while it runs                  *)
(***************************************************************************)
\* Stands for a byte above 0x7F, negative as a char where char is signed.
HighByte == "0xE9"

Inputs ==
    {S_xml, S_json, S_XML, S_yaml, S_empty,
     <<"X", "m", "l">>, <<"J", "s", "o", "n">>, <<"J", "S", "O", "N">>,
     <<"j", "s", "o", "n", "x">>, <<HighByte, "m", "l">>}

\* std::tolower in the "C" locale, for a character that unsigned char holds.
ToLower(c) ==
    CASE c = "A" -> "a" [] c = "B" -> "b" [] c = "C" -> "c" [] c = "D" -> "d"
      [] c = "E" -> "e" [] c = "F" -> "f" [] c = "G" -> "g" [] c = "H" -> "h"
      [] c = "I" -> "i" [] c = "J" -> "j" [] c = "K" -> "k" [] c = "L" -> "l"
      [] c = "M" -> "m" [] c = "N" -> "n" [] c = "O" -> "o" [] c = "P" -> "p"
      [] c = "Q" -> "q" [] c = "R" -> "r" [] c = "S" -> "s" [] c = "T" -> "t"
      [] c = "U" -> "u" [] c = "V" -> "v" [] c = "W" -> "w" [] c = "X" -> "x"
      [] c = "Y" -> "y" [] c = "Z" -> "z" [] OTHER -> c

\* std::tolower of a negative char is undefined: any character may come back.
ToLowerUndefined == {HighByte, "x", "?"}

\* The strings the loop of lines 249-251 can leave in selectedFormat.
LowerCased(input) ==
    LET chars == ToLowerUndefined \cup {ToLower(input[i]) : i \in DOMAIN input}
    IN {s \in [DOMAIN input -> chars] :
           \A i \in DOMAIN input :
              IF input[i] = HighByte THEN s[i] \in ToLowerUndefined
              ELSE s[i] = ToLower(input[i])}

\* Mutant: an unknown format is passed on as it is.
Defaulted_Never(format) == format

\* Lines 253-256.
Defaulted(format) ==
    IF format # S_json /\ format # S_xml THEN S_json ELSE format

InitMain ==
    /\ serializer = NoSerializer
    /\ instances = 0
    /\ result = <<>>
    /\ iterations = 0
    /\ error = <<>>
    /\ calls = <<>>
    /\ steps = 0
    /\ twin = NoSerializer
    /\ cin \in Inputs
    /\ selectedFormat = <<>>
    /\ pc = "read"
    /\ vehicleIndex = 0
    /\ exitCode = -1

MainRead ==
    /\ pc = "read"
    /\ \E lowered \in LowerCased(cin) : selectedFormat' = Defaulted(lowered)
    /\ pc' = "create"
    /\ UNCHANGED <<serializer, instances, result, iterations, error, calls, steps,
                   twin, cin, vehicleIndex, exitCode>>

\* formatSerializer = createSerializer(selectedFormat) inside the try block;
\* next is where main goes on when nothing is thrown.
MainAssign(next, nextIndex) ==
    LET r == createSerializer(selectedFormat, instances + 1)
    IN IF r.thrown
       THEN /\ error' = r.what
            /\ calls' = Append(calls, [inst |-> 0, op |-> "createSerializer",
                                       name |-> selectedFormat, val |-> NoValue])
            /\ exitCode' = 1
            /\ pc' = "done"
            /\ UNCHANGED <<serializer, instances, vehicleIndex>>
       ELSE /\ serializer' = r.ser
            /\ instances' = instances + 1
            /\ calls' = Append(calls, [inst |-> r.ser.id, op |-> "createSerializer",
                                       name |-> selectedFormat, val |-> NoValue])
            /\ vehicleIndex' = nextIndex
            /\ pc' = next
            /\ UNCHANGED <<error, exitCode>>

MainCreate ==
    /\ pc = "create"
    /\ MainAssign("serialize", 1)
    /\ UNCHANGED <<result, iterations, steps, twin, cin, selectedFormat>>

MainSerialize ==
    /\ pc = "serialize"
    /\ LET v == vehicleList[vehicleIndex]
       IN /\ serializer' = serializeVehicle(v, serializer)
          /\ calls' = Append(calls, [inst |-> serializer.id, op |-> "serialize",
                                     name |-> <<v.kind>>, val |-> NoValue])
                        \o LogAll(serializer.id, serialize(v))
    /\ pc' = "build"
    /\ UNCHANGED <<instances, result, iterations, error, steps, twin,
                   cin, selectedFormat, vehicleIndex, exitCode>>

MainBuild ==
    /\ pc = "build"
    /\ LET r == build(serializer)
       IN /\ serializer' = r.ser
          /\ result' = r.ret
          /\ iterations' = r.iterations
    /\ calls' = Append(calls, [inst |-> serializer.id, op |-> "build",
                               name |-> <<>>, val |-> NoValue])
    /\ pc' = "recreate"
    /\ UNCHANGED <<instances, error, steps, twin,
                   cin, selectedFormat, vehicleIndex, exitCode>>

MainRecreate ==
    /\ pc = "recreate"
    /\ MainAssign(IF vehicleIndex < Len(vehicleList) THEN "serialize" ELSE "return",
                  vehicleIndex + 1)
    /\ UNCHANGED <<result, iterations, steps, twin, cin, selectedFormat>>

MainReturn ==
    /\ pc = "return"
    /\ exitCode' = 0
    /\ pc' = "done"
    /\ UNCHANGED <<serializer, instances, result, iterations, error, calls, steps,
                   twin, cin, selectedFormat, vehicleIndex>>

NextMain ==
    \/ MainRead
    \/ MainCreate
    \/ MainSerialize
    \/ MainBuild
    \/ MainRecreate
    \/ MainReturn

SpecMain == InitMain /\ [][NextMain]_vars

(***************************************************************************)
(* Reading the log.                                                        *)
(***************************************************************************)
LastCall == calls[Len(calls)]

\* The step appends exactly one call, and it is a call of op.
IsStep(op) ==
    /\ Len(calls') = Len(calls) + 1
    /\ calls'[Len(calls')].op = op

\* The calls made on object id, in order (the factory call that made it left out).
InstCalls(id) ==
    LET mine == SelectSeq(calls, LAMBDA c : c.inst = id /\ c.op # "createSerializer")
    IN [i \in DOMAIN mine |-> [op |-> mine[i].op, name |-> mine[i].name, val |-> mine[i].val]]

CountOp(id, op) ==
    Cardinality({i \in DOMAIN calls : calls[i].inst = id /\ calls[i].op = op})

BuildCall == [op |-> "build", name |-> <<>>, val |-> NoValue]

Spaces(n) == [i \in 1..n |-> SP]

(***************************************************************************)
(* C1: in both serializers currentIndentLevel equals the number of         *)
(* entries of blockStack after any sequence of calls, endBlock on an empty *)
(* stack included; the indent level is never negative.                     *)
(***************************************************************************)
C1_IndentEqualsDepth ==
    serializer.class # "null" =>
        /\ serializer.currentIndentLevel = Len(serializer.blockStack)
        /\ serializer.currentIndentLevel >= 0

\* endBlock has been called more often than addBlock, the last time just now.
C1_Witness ==
    /\ serializer.class # "null"
    /\ Len(calls) > 0
    /\ LastCall.op = "endBlock"
    /\ CountOp(serializer.id, "addBlock") >= 1
    /\ CountOp(serializer.id, "endBlock") > CountOp(serializer.id, "addBlock")

(***************************************************************************)
(* C2: once build() returns, the block stack is empty and the indent level *)
(* is 0, and its loop ran once per block that was still open.              *)
(***************************************************************************)
C2_BuildUnwinds ==
    [][IsStep("build") =>
          /\ serializer'.blockStack = <<>>
          /\ serializer'.currentIndentLevel = 0
          /\ iterations' = Len(serializer.blockStack)]_vars

\* build() has just closed two blocks.
C2_Witness ==
    /\ Len(calls) > 0
    /\ LastCall.op = "build"
    /\ iterations >= 2
    /\ serializer.blockStack = <<>>

(***************************************************************************)
(* C3: endBlock() on an empty block stack is a no-op: no error, and the    *)
(* buffer, the stack, the indent level and the comma flag are unchanged,   *)
(* so a later build() returns what it would have returned without it.      *)
(***************************************************************************)
C3_EndBlockOnEmptyIsNoOp ==
    [][(IsStep("endBlock") /\ serializer.blockStack = <<>>) =>
          /\ serializer' = serializer
          /\ error' = error
          /\ build(serializer').ret = build(serializer).ret]_vars

\* endBlock() has just been called on a JsonSerializer with text in its
\* buffer and no open block.
C3_Witness ==
    /\ serializer.class = "JsonSerializer"
    /\ Len(calls) > 1
    /\ LastCall.op = "endBlock"
    /\ calls[Len(calls) - 1].inst = serializer.id
    /\ calls[Len(calls) - 1].op \in {"endBlock", "build"}
    /\ serializer.blockStack = <<>>
    /\ serializer.outputContent # <<>>

(***************************************************************************)
(* C4: build() closes the open blocks innermost first, one closer each:    *)
(* XmlSerializer appends </bn> ... </b1>, the closer of bk behind 2*(k-1)  *)
(* spaces as its opening tag was; JsonSerializer appends n closing braces. *)
(***************************************************************************)
RECURSIVE XmlClosers(_, _)
XmlClosers(st, k) ==
    IF k = 0 THEN <<>>
    ELSE Spaces(2 * (k - 1)) \o <<"<", "/">> \o st[k] \o <<">", NL>> \o XmlClosers(st, k - 1)

RECURSIVE JsonClosers(_)
JsonClosers(k) ==
    IF k = 0 THEN <<>>
    ELSE <<NL>> \o Spaces(2 * (k - 1)) \o <<"}">> \o JsonClosers(k - 1)

C4_BuildClosesLifo ==
    [][IsStep("build") =>
          /\ iterations' = Len(serializer.blockStack)
          /\ serializer.class = "XmlSerializer" =>
                serializer'.outputContent =
                    serializer.outputContent
                      \o XmlClosers(serializer.blockStack, Len(serializer.blockStack))
          /\ serializer.class = "JsonSerializer" =>
                serializer'.outputContent =
                    serializer.outputContent \o JsonClosers(Len(serializer.blockStack))]_vars

\* addBlock("a"); addBlock("b"); addField("x","y"); build() on an
\* XmlSerializer has closed b and then a.
C4_Witness ==
    /\ serializer.class = "XmlSerializer"
    /\ InstCalls(serializer.id) =
          <<AddBlockCall(S_a), AddBlockCall(S_b), AddFieldCall(S_x, StringValue(S_y)), BuildCall>>
    /\ result = <<"<", "a", ">", NL,
                  SP, SP, "<", "b", ">", NL,
                  SP, SP, SP, SP, "<", "x", ">", "y", "<", "/", "x", ">", NL,
                  SP, SP, "<", "/", "b", ">", NL,
                  "<", "/", "a", ">", NL>>

(***************************************************************************)
(* C5: build() called twice in a row returns the same string both times;   *)
(* the second call closes nothing and adds nothing to the buffer.          *)
(***************************************************************************)
C5_BuildIdempotent ==
    [][(/\ IsStep("build")
        /\ Len(calls) > 0
        /\ LastCall.op = "build"
        /\ LastCall.inst = serializer.id) =>
          /\ result' = result
          /\ iterations' = 0
          /\ serializer'.outputContent = serializer.outputContent]_vars

\* Two build() calls in a row on a JsonSerializer, the first of which
\* closed a block.
C5_Witness ==
    /\ serializer.class = "JsonSerializer"
    /\ Len(calls) > 3
    /\ LastCall.op = "build"
    /\ calls[Len(calls) - 1].op = "build"
    /\ calls[Len(calls) - 1].inst = serializer.id
    /\ calls[Len(calls) - 2].op \in {"addField", "addBlock"}
    /\ CountOp(serializer.id, "addBlock") > CountOp(serializer.id, "endBlock")

(***************************************************************************)
(* C6 (as stated): on a fresh JsonSerializer, addBlock("a");               *)
(* addField("x", 1); endBlock(); build() returns '{', newline, '"a": {',   *)
(* newline, two spaces, '"x": 1', newline, '}', newline, '}', with exactly *)
(* one newline between the wrapper's brace and the first item.             *)
(***************************************************************************)
JsonRoundTripCalls ==
    <<AddBlockCall(S_a), AddFieldCall(S_x, IntValue(1)), EndBlockCall, BuildCall>>

JsonRoundTripDone ==
    /\ serializer.class = "JsonSerializer"
    /\ InstCalls(serializer.id) = JsonRoundTripCalls

C6_JsonRoundTrip_AsStated ==
    JsonRoundTripDone =>
        result = <<"{", NL,
                   QUOTE, "a", QUOTE, ":", SP, "{", NL,
                   SP, SP, QUOTE, "x", QUOTE, ":", SP, "1", NL,
                   "}", NL,
                   "}">>

(***************************************************************************)
(* C6 (amended): the same calls return '{', newline, newline, '"a": {',    *)
(* newline, two spaces, '"x": 1', newline, '}', newline, '}': the first    *)
(* top-level item brings its own newline, so two newlines (one blank line) *)
(* lie between the wrapper's opening brace and it.                         *)
(***************************************************************************)
C6_JsonRoundTrip ==
    JsonRoundTripDone =>
        result = <<"{", NL,
                   NL, QUOTE, "a", QUOTE, ":", SP, "{",
                   NL, SP, SP, QUOTE, "x", QUOTE, ":", SP, "1",
                   NL, "}",
                   NL, "}">>

C6_Witness == JsonRoundTripDone /\ Len(result) > 0

(***************************************************************************)
(* C7: on a fresh XmlSerializer, addBlock("a"); addField("x", 1);          *)
(* endBlock(); build() returns '<a>', newline, two spaces, '<x>1</x>',     *)
(* newline, '</a>', newline, and nothing around it.                        *)
(***************************************************************************)
XmlRoundTripDone ==
    /\ serializer.class = "XmlSerializer"
    /\ InstCalls(serializer.id) =
          <<AddBlockCall(S_a), AddFieldCall(S_x, IntValue(1)), EndBlockCall, BuildCall>>

C7_XmlRoundTrip ==
    XmlRoundTripDone =>
        result = <<"<", "a", ">", NL,
                   SP, SP, "<", "x", ">", "1", "<", "/", "x", ">", NL,
                   "<", "/", "a", ">", NL>>

C7_Witness == XmlRoundTripDone /\ Len(result) > 0

(***************************************************************************)
(* C8: in the JSON document, at every nesting level, two consecutive items *)
(* are separated by exactly one comma, no comma precedes the first item of *)
(* a level and none follows the last one.                                  *)
(*                                                                         *)
(* Read off the text: an item starts on a line whose first character       *)
(* behind the indent is a quote.  A comma stands directly behind the end   *)
(* of an item and directly before the line of the next item; the line of   *)
(* an item follows a comma unless the item is the first of its level (it   *)
(* then follows the brace that opened the level).                          *)
(***************************************************************************)
JsonDocument == build(serializer).ret

RECURSIVE SkipSpaces(_, _)
SkipSpaces(doc, i) ==
    IF i <= Len(doc) /\ doc[i] = SP THEN SkipSpaces(doc, i + 1) ELSE i

\* doc[i] is the newline in front of the line of an item.
ItemStartsAfter(doc, i) ==
    /\ i < Len(doc)
    /\ doc[i] = NL
    /\ LET j == SkipSpaces(doc, i + 1) IN j <= Len(doc) /\ doc[j] = QUOTE

CommasCorrect(doc) ==
    /\ \A i \in DOMAIN doc :
          doc[i] = "," =>
             /\ i > 1
             /\ doc[i - 1] \notin {"{", ",", NL, SP}
             /\ ItemStartsAfter(doc, i + 1)
    /\ \A i \in DOMAIN doc :
          ItemStartsAfter(doc, i) =>
             \/ doc[i - 1] = ","
             \/ doc[i - 1] = "{" /\ i > 2
             \/ i = 3 /\ doc[1] = "{" /\ doc[2] = NL

C8_CommaCorrectness ==
    serializer.class = "JsonSerializer" => CommasCorrect(JsonDocument)

CommaCount(doc) == Cardinality({i \in DOMAIN doc : doc[i] = ","})

\* A block with a field, closed, and one more item behind it: the first
\* item of each level has no comma, the item behind the block has one.
C8_Witness ==
    /\ serializer.class = "JsonSerializer"
    /\ CommaCount(JsonDocument) = 1
    /\ CountOp(serializer.id, "addBlock") = 1
    /\ CountOp(serializer.id, "endBlock") = 1
    /\ CountOp(serializer.id, "addField") = 2
    /\ \E i \in DOMAIN JsonDocument :
          i > 1 /\ JsonDocument[i] = "," /\ JsonDocument[i - 1] = "}"

(***************************************************************************)
(* C9: createSerializer returns a new XmlSerializer for exactly "xml", a   *)
(* new JsonSerializer for exactly "json", and for every other identifier   *)
(* ("XML" and "" included) throws an error whose message contains the      *)
(* identifier and returns no serializer.                                   *)
(***************************************************************************)
Contains(hay, needle) ==
    \E k \in 0..(Len(hay) - Len(needle)) : SubSeq(hay, k + 1, k + Len(needle)) = needle

IsNewSerializer(s, class) ==
    /\ s.class = class
    /\ s.blockStack = <<>>
    /\ s.outputContent = <<>>
    /\ s.currentIndentLevel = 0
    /\ \A i \in DOMAIN calls : calls[i].inst # s.id

C9_Factory ==
    [][IsStep("createSerializer") =>
          LET formatId == calls'[Len(calls')].name
          IN /\ formatId = <<"x", "m", "l">> =>
                   /\ IsNewSerializer(serializer', "XmlSerializer")
                   /\ instances' = instances + 1
                   /\ error' = error
             /\ formatId = <<"j", "s", "o", "n">> =>
                   /\ IsNewSerializer(serializer', "JsonSerializer")
                   /\ instances' = instances + 1
                   /\ error' = error
             /\ formatId \notin {<<"x", "m", "l">>, <<"j", "s", "o", "n">>} =>
                   /\ error' # <<>>
                   /\ Contains(error', formatId)
                   /\ serializer' = serializer
                   /\ instances' = instances]_vars

\* createSerializer("XML") has just thrown, after an earlier call returned
\* a serializer.
C9_Witness ==
    /\ Len(calls) > 1
    /\ LastCall.op = "createSerializer"
    /\ LastCall.name = <<"X", "M", "L">>
    /\ serializer.class # "null"
    /\ error = S_Unsupported \o <<"X", "M", "L">>

(***************************************************************************)
(* C10: every Vehicle kind makes the same fixed calls on whichever         *)
(* serializer it is given: addBlock("vehicle"); addField of type (the      *)
(* kind's name), name, manufacturer, weight, power, year; addBlock of the  *)
(* kind's sub-block; its four fields in declared order; endBlock;          *)
(* endBlock.                                                               *)
(***************************************************************************)
S_car_specific == <<"c", "a", "r", "_", "s", "p", "e", "c", "i", "f", "i", "c">>
S_airplane_specific ==
    <<"a", "i", "r", "p", "l", "a", "n", "e", "_", "s", "p", "e", "c", "i", "f", "i", "c">>
S_ship_specific == <<"s", "h", "i", "p", "_", "s", "p", "e", "c", "i", "f", "i", "c">>

VehicleOfKind(kind) == CHOOSE v \in Vehicles : v.kind = kind

\* The calls a vehicle of the kind is to make, given the name of its sub-block.
ExpectedCalls(kind, subBlock) ==
    LET v == VehicleOfKind(kind)
        common(typeName) ==
            <<AddBlockCall(S_vehicle),
              AddFieldCall(S_type, StringValue(typeName)),
              AddFieldCall(S_name, StringValue(v.modelName)),
              AddFieldCall(S_manufacturer, StringValue(v.manufacturerName)),
              AddFieldCall(S_weight, v.vehicleWeight),
              AddFieldCall(S_power, v.enginePower),
              AddFieldCall(S_year, IntValue(v.productionYear)),
              AddBlockCall(subBlock)>>
        closing == <<EndBlockCall, EndBlockCall>>
    IN CASE kind = "Car" ->
              common(<<"C", "a", "r">>)
                \o <<AddFieldCall(S_doors, IntValue(v.doorCount)),
                     AddFieldCall(S_passengerSeats, IntValue(v.passengerSeatCount)),
                     AddFieldCall(S_fuelType, StringValue(v.fuelType)),
                     AddFieldCall(S_engineVolume, v.engineVolume)>>
                \o closing
         [] kind = "Airplane" ->
              common(<<"A", "i", "r", "p", "l", "a", "n", "e">>)
                \o <<AddFieldCall(S_wingspan, IntValue(v.wingSpan)),
                     AddFieldCall(S_maxAltitude, IntValue(v.maxAltitude)),
                     AddFieldCall(S_passengerCapacity, IntValue(v.maxPassengerCapacity)),
                     AddFieldCall(S_maxSpeed, v.maxSpeed)>>
                \o closing
         [] kind = "Ship" ->
              common(<<"S", "h", "i", "p">>)
                \o <<AddFieldCall(S_length, v.shipLength),
                     AddFieldCall(S_displacement, v.shipDisplacement),
                     AddFieldCall(S_crewCapacity, IntValue(v.crewCapacity)),
                     AddFieldCall(S_propulsionType, StringValue(v.propulsionType))>>
                \o closing

SerializeMarks == {i \in DOMAIN calls : calls[i].op = "serialize"}

\* The calls logged behind the mark at i are exactly cs, all on the
\* serializer the vehicle was given, and nothing else follows within the pass.
DrivesExactly(i, cs) ==
    /\ Len(calls) >= i + Len(cs)
    /\ \A k \in DOMAIN cs : calls[i + k] = Logged(calls[i].inst, cs[k])
    /\ Len(cs) = 14

SnakeSubBlock(kind) ==
    CASE kind = "Car" -> S_car_specific
      [] kind = "Airplane" -> S_airplane_specific
      [] kind = "Ship" -> S_ship_specific

CamelSubBlock(kind) ==
    CASE kind = "Car" -> <<"c", "a", "r", "S", "p", "e", "c", "i", "f", "i", "c">>
      [] kind = "Airplane" ->
            <<"a", "i", "r", "p", "l", "a", "n", "e", "S", "p", "e", "c", "i", "f", "i", "c">>
      [] kind = "Ship" -> <<"s", "h", "i", "p", "S", "p", "e", "c", "i", "f", "i", "c">>

ClassOfInst(id) ==
    LET made == {i \in DOMAIN calls : calls[i].op = "createSerializer" /\ calls[i].inst = id}
    IN calls[CHOOSE i \in made : TRUE].name

CarXmlBuilt ==
    /\ serializer.class = "XmlSerializer"
    /\ Len(InstCalls(serializer.id)) = 16
    /\ InstCalls(serializer.id)[1].op = "serialize"
    /\ InstCalls(serializer.id)[1].name = <<"Car">>
    /\ InstCalls(serializer.id)[16].op = "build"

PassesOn(id) == {i \in SerializeMarks : calls[i].inst = id}

C12_OnePassPerInstance ==
    /\ \A i \in SerializeMarks :
          \A j \in 1..(i - 1) :
             calls[j].inst = calls[i].inst => calls[j].op = "createSerializer"
    /\ \A id \in 1..instances : Cardinality(PassesOn(id)) <= 1
    /\ \A i \in DOMAIN calls :
          calls[i].op = "build" =>
             \A j \in (i + 1)..Len(calls) : calls[j].inst # calls[i].inst
    /\ (pc = "done" /\ exitCode = 0) =>
          \A id \in 1..instances : Cardinality(PassesOn(id)) = 1

(***************************************************************************)
(* C13: the text build() returns from an XmlSerializer is properly nested: *)
(* every closing tag carries the name of the most recently opened tag that *)
(* is not yet closed, no closing tag comes without an open one, and        *)
(* nothing is left open at the end (names and values hold no < or >).      *)
(***************************************************************************)
XmlDocument == build(serializer).ret

\* The first position from i on that holds character c, Len(doc) + 1 if none.
FirstAt(doc, i, c) ==
    LET at == {j \in i..Len(doc) : doc[j] = c}
    IN IF at = {} THEN Len(doc) + 1 ELSE CHOOSE j \in at : \A k \in at : j <= k

\* The characters from position k up to the next ">".
NameFrom(doc, k) == SubSeq(doc, k, FirstAt(doc, k, ">") - 1)

\* Reads the tags of doc from position i on with the names of the open tags
\* in open.
RECURSIVE WellNested(_, _, _)
WellNested(doc, i, open) ==
    LET t == FirstAt(doc, i, "<")
    IN IF t > Len(doc) THEN open = <<>>
       ELSE IF t < Len(doc) /\ doc[t + 1] = "/"
       THEN /\ open # <<>>
            /\ open[Len(open)] = NameFrom(doc, t + 2)
            /\ WellNested(doc, t + 1, SubSeq(open, 1, Len(open) - 1))
       ELSE WellNested(doc, t + 1, Append(open, NameFrom(doc, t + 1)))

C13_XmlWellNested ==
    serializer.class = "XmlSerializer" => WellNested(XmlDocument, 1, <<>>)

\* Block a was closed, one more endBlock() found nothing open, and block b
\* is still open.
C13_Witness ==
    /\ serializer.class = "XmlSerializer"
    /\ serializer.blockStack = <<S_b>>
    /\ InstCalls(serializer.id) =
          <<AddBlockCall(S_a), EndBlockCall, EndBlockCall, AddBlockCall(S_b)>>

(***************************************************************************)
(* C14: build() on a JsonSerializer to which no field and no block was     *)
(* ever added (endBlock() calls on the empty stack allowed) returns        *)
(* exactly '{', newline, newline, '}'.                                     *)
(***************************************************************************)
EmptyJsonBuilt ==
    /\ serializer.class = "JsonSerializer"
    /\ Len(calls) > 0
    /\ LastCall.op = "build"
    /\ LastCall.inst = serializer.id
    /\ \A i \in DOMAIN calls :
          calls[i].inst = serializer.id =>
             calls[i].op \in {"createSerializer", "endBlock", "build"}

C14_EmptyJsonDocument ==
    EmptyJsonBuilt => result = <<"{", NL, NL, "}">>

\* endBlock(); endBlock(); build() on a fresh JsonSerializer.
C14_Witness ==
    /\ EmptyJsonBuilt
    /\ InstCalls(serializer.id) = <<EndBlockCall, EndBlockCall, BuildCall>>

(***************************************************************************)
(* C15: the one comma flag of a JsonSerializer equals a flag kept per      *)
(* level: isCommaNeeded is false exactly when nothing has been written yet *)
(* at the innermost open level and true exactly when that level already    *)
(* holds an item.                                                          *)
(*                                                                         *)
(* LevelFlags replays the calls with one flag per level, the top level     *)
(* first and the innermost open level last.                                *)
(***************************************************************************)
LevelStep(flags, c) ==
    LET n == Len(flags)
    IN CASE c.op = "addField" -> [flags EXCEPT ![n] = TRUE]
         [] c.op = "addBlock" -> Append([flags EXCEPT ![n] = TRUE], FALSE)
         [] c.op = "endBlock" -> IF n > 1 THEN SubSeq(flags, 1, n - 1) ELSE flags
         [] c.op = "build" -> <<flags[1]>>
         [] OTHER -> flags

RECURSIVE LevelFlags(_, _)
LevelFlags(cs, k) ==
    IF k = 0 THEN <<FALSE>> ELSE LevelStep(LevelFlags(cs, k - 1), cs[k])

C15_CommaFlagIsPerLevel ==
    serializer.class = "JsonSerializer" =>
        LET cs == InstCalls(serializer.id)
            flags == LevelFlags(cs, Len(cs))
        IN /\ Len(flags) = Len(serializer.blockStack) + 1
           /\ serializer.isCommaNeeded = flags[Len(flags)]

\* Block a with a field was closed and block b was just opened: the top
\* level holds an item, the innermost level holds none.
C15_Witness ==
    /\ serializer.class = "JsonSerializer"
    /\ InstCalls(serializer.id) =
          <<AddBlockCall(S_a), AddFieldCall(S_x, IntValue(1)), EndBlockCall, AddBlockCall(S_b)>>
    /\ serializer.isCommaNeeded = FALSE

(***************************************************************************)
(* C16: every line of the XML text starts with exactly 2*d spaces, d being *)
(* the number of blocks open around the line: a field or an opening tag    *)
(* stands at the depth before the call, a closing tag at the shallower     *)
(* depth, under its opening tag.                                           *)
(*                                                                         *)
(* IndentedFrom reads the line that starts at position i with d blocks     *)
(* open: a line of a closing tag starts with "</", a line of a field holds *)
(* "</" further on, any other line opens a block.                          *)
(***************************************************************************)
RECURSIVE IndentedFrom(_, _, _)
IndentedFrom(doc, i, d) ==
    IF i > Len(doc) THEN TRUE
    ELSE LET end == FirstAt(doc, i, NL)
             tag == SkipSpaces(doc, i)
             closes == tag < end /\ doc[tag] = "<" /\ doc[tag + 1] = "/"
             field == \E k \in (tag + 1)..(end - 2) : doc[k] = "<" /\ doc[k + 1] = "/"
         IN /\ end <= Len(doc)
            /\ tag < end
            /\ doc[tag] = "<"
            /\ IF closes
               THEN /\ d >= 1
                    /\ tag - i = 2 * (d - 1)
                    /\ IndentedFrom(doc, end + 1, d - 1)
               ELSE /\ tag - i = 2 * d
                    /\ IndentedFrom(doc, end + 1, IF field THEN d ELSE d + 1)

C16_XmlIndentation ==
    serializer.class = "XmlSerializer" => IndentedFrom(XmlDocument, 1, 0)

\* A field at depth 2, the closing tag of its block at depth 1, and block a
\* left for build() to close at depth 0.
C16_Witness ==
    /\ serializer.class = "XmlSerializer"
    /\ InstCalls(serializer.id) =
          <<AddBlockCall(S_a), AddBlockCall(S_b), AddFieldCall(S_x, StringValue(S_y)),
            EndBlockCall>>
    /\ serializer.currentIndentLevel = 1

(***************************************************************************)
(* C17: what JsonSerializer::build returns is one top-level object: it     *)
(* begins with '{' and a newline, ends with a newline and '}', holds as    *)
(* many '{' as '}', and every proper non-empty prefix holds more '{' than  *)
(* '}', also when endBlock was called more often than addBlock.            *)
(***************************************************************************)
\* The positions of the braces of doc.
Braces(doc) == {i \in DOMAIN doc : doc[i] \in {"{", "}"}}

\* How many of the brace positions in at, up to position k, hold character c.
CountUpTo(doc, at, k, c) == Cardinality({i \in at : i <= k /\ doc[i] = c})

\* The counts of a prefix change only where it ends in a brace, so the
\* prefixes that end in a brace stand for all of them.
BalancedAt(doc, at) ==
    /\ CountUpTo(doc, at, Len(doc), "{") = CountUpTo(doc, at, Len(doc), "}")
    /\ \A k \in at :
          k < Len(doc) => CountUpTo(doc, at, k, "{") > CountUpTo(doc, at, k, "}")

OneTopLevelObject(doc) ==
    /\ Len(doc) >= 4
    /\ doc[1] = "{" /\ doc[2] = NL
    /\ doc[Len(doc) - 1] = NL /\ doc[Len(doc)] = "}"
    /\ BalancedAt(doc, Braces(doc))

C17_JsonOneTopLevelObject ==
    serializer.class = "JsonSerializer" => OneTopLevelObject(JsonDocument)

\* endBlock() was called twice for one addBlock(), and a field follows.
C17_Witness ==
    /\ serializer.class = "JsonSerializer"
    /\ InstCalls(serializer.id) =
          <<AddBlockCall(S_a), EndBlockCall, EndBlockCall, AddFieldCall(S_x, IntValue(1))>>
    /\ OneTopLevelObject(JsonDocument)

(***************************************************************************)
(* Two serializers under the same calls: serializer is an XmlSerializer,   *)
(* twin a JsonSerializer, both fresh, and every call is made on both.      *)
(* result and iterations hold what the two build() calls gave, the         *)
(* XmlSerializer's first.                                                  *)
(***************************************************************************)
InitPair ==
    /\ serializer = NewXmlSerializer(1)
    /\ twin = NewJsonSerializer(2)
    /\ instances = 2
    /\ result = <<<<>>, <<>>>>
    /\ iterations = <<0, 0>>
    /\ error = <<>>
    /\ calls = <<[inst |-> 1, op |-> "createSerializer", name |-> S_xml, val |-> NoValue],
                 [inst |-> 2, op |-> "createSerializer", name |-> S_json, val |-> NoValue]>>
    /\ steps = 0
    /\ cin = <<>>
    /\ selectedFormat = <<>>
    /\ pc = "pair"
    /\ vehicleIndex = 0
    /\ exitCode = -1

PairCallStep(c) ==
    /\ pc = "pair"
    /\ steps < MaxSteps
    /\ serializer' = Call(serializer, c)
    /\ twin' = Call(twin, c)
    /\ calls' = calls \o <<Logged(serializer.id, c), Logged(twin.id, c)>>
    /\ steps' = steps + 1
    /\ UNCHANGED <<instances, result, iterations, error, driverVars>>

PairAddField(fieldName, fieldValue) == PairCallStep(AddFieldCall(fieldName, fieldValue))

PairAddBlock(blockName) == PairCallStep(AddBlockCall(blockName))

PairEndBlock == PairCallStep(EndBlockCall)

PairBuild ==
    /\ pc = "pair"
    /\ steps < MaxSteps
    /\ LET rx == build(serializer)
           rj == build(twin)
       IN /\ serializer' = rx.ser
          /\ twin' = rj.ser
          /\ result' = <<rx.ret, rj.ret>>
          /\ iterations' = <<rx.iterations, rj.iterations>>
    /\ calls' = calls \o <<[inst |-> serializer.id, op |-> "build", name |-> <<>>, val |-> NoValue],
                          [inst |-> twin.id, op |-> "build", name |-> <<>>, val |-> NoValue]>>
    /\ steps' = steps + 1
    /\ UNCHANGED <<instances, error, driverVars>>

PairSerialize(v) ==
    /\ pc = "pair"
    /\ steps = 0
    /\ serializer' = serializeVehicle(v, serializer)
    /\ twin' = serializeVehicle(v, twin)
    /\ calls' = calls
                  \o <<[inst |-> serializer.id, op |-> "serialize", name |-> <<v.kind>>,
                        val |-> NoValue]>>
                  \o LogAll(serializer.id, serialize(v))
                  \o <<[inst |-> twin.id, op |-> "serialize", name |-> <<v.kind>>,
                        val |-> NoValue]>>
                  \o LogAll(twin.id, serialize(v))
    /\ steps' = steps + 1
    /\ UNCHANGED <<instances, result, iterations, error, driverVars>>

NextPair ==
    \/ \E n \in FieldNames, v \in FieldValues : PairAddField(n, v)
    \/ \E n \in BlockNames : PairAddBlock(n)
    \/ PairEndBlock
    \/ PairBuild
    \/ \E v \in Vehicles : PairSerialize(v)

SpecPair == InitPair /\ [][NextPair]_vars

(***************************************************************************)
(* C18: under the same calls an XmlSerializer and a JsonSerializer have,   *)
(* after every call, the same block stack and the same indent level, and   *)
(* their outputs hold the same fields and blocks in the same order and     *)
(* nesting.                                                                *)
(*                                                                         *)
(* The outputs are compared as what their lines say: a block opened        *)
(* (with its name), a field (with its name and the text of its value), a   *)
(* block closed.                                                           *)
(***************************************************************************)
Opened(name) == <<"open", name>>
Field(name, text) == <<"field", name, text>>
Closed == <<"close">>

\* What the XML line from position tag (its "<") to position end - 1 says.
XmlLineEvent(doc, tag, end) ==
    LET name == NameFrom(doc, tag + 1)
        after == tag + Len(name) + 2
    IN IF doc[tag + 1] = "/" THEN Closed
       ELSE IF after >= end THEN Opened(name)
       ELSE Field(name, SubSeq(doc, after, FirstAt(doc, after, "<") - 1))

RECURSIVE XmlEvents(_, _)
XmlEvents(doc, i) ==
    IF i > Len(doc) THEN <<>>
    ELSE LET end == FirstAt(doc, i, NL)
         IN <<XmlLineEvent(doc, SkipSpaces(doc, i), end)>> \o XmlEvents(doc, end + 1)

\* text without the quotes around it, if it has them.
Unquoted(text) ==
    IF Len(text) >= 2 /\ text[1] = QUOTE /\ text[Len(text)] = QUOTE
    THEN SubSeq(text, 2, Len(text) - 1) ELSE text

\* What the JSON line from position tag (its first character behind the
\* indent) to position end - 1 says; the line is not empty.
JsonLineEvent(doc, tag, end) ==
    IF doc[tag] = "}" THEN Closed
    ELSE IF doc[tag] = "{" THEN Opened(<<>>)
    ELSE LET name == SubSeq(doc, tag + 1, FirstAt(doc, tag + 1, QUOTE) - 1)
             from == tag + Len(name) + 4
             to == IF doc[end - 1] = "," THEN end - 2 ELSE end - 1
             text == SubSeq(doc, from, to)
         IN IF text = <<"{">> THEN Opened(name) ELSE Field(name, Unquoted(text))

RECURSIVE JsonEvents(_, _)
JsonEvents(doc, i) ==
    IF i > Len(doc) THEN <<>>
    ELSE LET end == FirstAt(doc, i, NL)
             tag == SkipSpaces(doc, i)
         IN (IF tag >= end THEN <<>> ELSE <<JsonLineEvent(doc, tag, end)>>)
              \o JsonEvents(doc, end + 1)

C18_StructurallyEquivalent ==
    /\ serializer.blockStack = twin.blockStack
    /\ serializer.currentIndentLevel = twin.currentIndentLevel
    /\ JsonEvents(build(twin).ret, 1) =
          <<Opened(<<>>)>> \o XmlEvents(build(serializer).ret, 1) \o <<Closed>>

\* Both hold block a open after five calls, four of which left a line: a
\* block with an int field, closed; one endBlock() too many; addBlock("a").
C18_Witness ==
    /\ pc = "pair"
    /\ steps = 5
    /\ twin.blockStack = <<S_a>>
    /\ XmlEvents(build(serializer).ret, 1) =
          <<Opened(S_b), Field(S_x, <<"1">>), Closed, Opened(S_a), Closed>>

(***************************************************************************)
(* C19: every serialize pass is balanced: it calls endBlock as often as    *)
(* addBlock and never with no block open; so when main calls build() the   *)
(* block stack is already empty, the loop of build() runs zero times and   *)
(* build() changes nothing in the serializer.                              *)
(***************************************************************************)
\* The log entries of the pass marked at i: up to the next entry that is
\* not an addField, addBlock or endBlock call on the same object.
PassEnd(i) ==
    LET stops == {j \in (i + 1)..Len(calls) :
                     \/ calls[j].inst # calls[i].inst
                     \/ calls[j].op \notin {"addField", "addBlock", "endBlock"}}
    IN IF stops = {} THEN Len(calls) ELSE (CHOOSE j \in stops : \A k \in stops : j <= k) - 1

OpsBetween(from, to, op) == Cardinality({j \in from..to : calls[j].op = op})

PassBalanced(i) ==
    /\ OpsBetween(i + 1, PassEnd(i), "addBlock") = OpsBetween(i + 1, PassEnd(i), "endBlock")
    /\ OpsBetween(i + 1, PassEnd(i), "addBlock") > 0
    /\ \A j \in (i + 1)..PassEnd(i) :
          calls[j].op = "endBlock" =>
             OpsBetween(i + 1, j - 1, "addBlock") > OpsBetween(i + 1, j - 1, "endBlock")

C19_PassesAreBalanced ==
    [][/\ \A i \in SerializeMarks' : PassBalanced(i)'
       /\ IsStep("build") =>
             /\ serializer.blockStack = <<>>
             /\ iterations' = 0
             /\ serializer' = serializer]_vars

\* main has built the third vehicle.
C19_Witness ==
    /\ pc = "recreate"
    /\ vehicleIndex = 3
    /\ LastCall.op = "build"
    /\ Cardinality(SerializeMarks) = 3
    /\ iterations = 0

(***************************************************************************)
(* C20: whatever main reads, the identifier it passes to createSerializer  *)
(* is "xml" or "json", so the factory's error is never raised from main    *)
(* and main never returns 1; the factory itself refuses every other        *)
(* identifier instead of defaulting.                                       *)
(***************************************************************************)
C20_DriverPassesKnownFormat ==
    /\ \A i \in DOMAIN calls :
          calls[i].op = "createSerializer" =>
             /\ calls[i].name \in {<<"x", "m", "l">>, <<"j", "s", "o", "n">>}
             /\ calls[i].inst # 0
    /\ pc # "read" => selectedFormat \in {<<"x", "m", "l">>, <<"j", "s", "o", "n">>}
    /\ error = <<>>
    /\ exitCode # 1
    /\ \A lowered \in LowerCased(cin) :
          lowered \notin {<<"x", "m", "l">>, <<"j", "s", "o", "n">>} =>
             createSerializer(lowered, instances + 1).thrown

\* main read "yaml", used "json" and returned 0.
C20_Witness ==
    /\ cin = <<"y", "a", "m", "l">>
    /\ selectedFormat = <<"j", "s", "o", "n">>
    /\ pc = "done"
    /\ exitCode = 0
    /\ instances = 4

====
